---- MODULE Spec2Model ----
(***************************************************************************)
(* Model of the on-chain (dynamic) RLN group manager of go-waku:           *)
(* DynamicGroupManager.Start / Stop, the background worker that feeds      *)
(* batches of RLNMemberRegistered events to handler, and handler itself    *)
(* (partition into two ordered maps, RemoveMembers newest-first,           *)
(* InsertMembers oldest-first, watermark and metadata).                    *)
(***************************************************************************)
EXTENDS Integers, Sequences, FiniteSets, TLC

\* ------------------------------------------------------------------ bounds
MaxIndex == 1       \* membership indexes carried by events: 0..MaxIndex
MaxBlock == 2       \* block numbers carried by events: 1..MaxBlock
MaxEvents == 2      \* events received, over all batches, in the reconciliation specification
MaxBatches == 2     \* batches handled in the reconciliation specification
LifeMaxEvents == 1  \* events received, and batches handled, in the lifecycle specification
MaxCreds == 2       \* credentials the keystore may return
MaxGroups == 2      \* membership groups per credential
NumCallers == 1     \* goroutines calling Start / Stop in the lifecycle specification
MaxCalls == 3       \* Start / Stop calls made in one behaviour
MaxShort == 1       \* length of the short strings carried by the lightpush messages
MaxLong == 128      \* length of the long string (its length takes a two-byte varint)

Nil == 0 - 1        \* a nil pointer (identityCredential, membershipIndex)

Callers == 1..NumCallers
\* two overlapping calls need two goroutines
Racers == {1, 2}
Threads == Callers \cup Racers
Indexes == 0..MaxIndex
Blocks == 1..MaxBlock

\* ------------------------------------------------------------ small helpers
Reverse(s) == [i \in 1..Len(s) |-> s[Len(s) + 1 - i]]

\* the sequences over S of length at most n
SeqsUpTo(S, n) == UNION {[1..k -> S] : k \in 0..n}

SetMax(S) == CHOOSE x \in S : \A y \in S : y <= x
SetMin(S) == CHOOSE x \in S : \A y \in S : x <= y

\* --------------------------------------------------------------- the inputs
\* The id commitment the registry contract recorded for a slot in a block.
IdCommitmentOf(index, block) == 10 * block + index + 1

\* contracts.RLNMemberRegistered: Index, IdCommitment, Raw.BlockNumber, Raw.Removed
Events ==
    {[Index |-> i, IdCommitment |-> IdCommitmentOf(i, b), BlockNumber |-> b, Removed |-> r] :
        i \in Indexes, b \in Blocks, r \in BOOLEAN}

\* The events of the lifecycle specification: the registration of slot 0 in
\* block 1 and its removal.
LifeEvents == {e \in Events : e.Index = 0 /\ e.BlockNumber = 1}

\* What keystore.GetMembershipCredentials returns on success: a list of
\* credentials, each given by its number of membership groups (the same
\* number for all the credentials of one list).
CredLists == {[k \in 1..n |-> g] : n \in 0..MaxCreds, g \in 0..MaxGroups}
\* credentials[k].IdentityCredential and credentials[k].MembershipGroups[g].TreeIndex
IdentityOf(k) == k + 1
TreeIndexOf(k, g) == 10 * (k + 1) + g

\* --------------------------------------------------- om.OrderedMap (wk8)
\* An ordered map is the sequence of its pairs, oldest insertion first.
OmNew == <<>>
OmHas(t, k) == \E i \in 1..Len(t) : t[i].Key = k
OmGet(t, k) == IF OmHas(t, k) THEN t[CHOOSE i \in 1..Len(t) : t[i].Key = k].Value ELSE <<>>
\* Set keeps the position of an existing key and appends a new one.
OmSet(t, k, v) ==
    IF OmHas(t, k)
    THEN [i \in 1..Len(t) |-> IF t[i].Key = k THEN [Key |-> k, Value |-> v] ELSE t[i]]
    ELSE Append(t, [Key |-> k, Value |-> v])

\* --------------------------------------------------------- handler (pure)
WatermarkCandidate_NoCompare(last, event) == event.BlockNumber

\* lines 191-193: the watermark candidate after one non-removed event
WatermarkCandidate(last, event) ==
    IF event.BlockNumber > last THEN event.BlockNumber ELSE last

InitialCandidate_Zero(gmLast) == 0

\* line 172: the local lastBlockProcessed starts from the manager's field
InitialCandidate(gmLast) == gmLast

RemovedIndexes_Prepend(indexes, event) == <<event.Index>> \o indexes

\* line 180: the index of a removed event goes at the end of the list of its block
RemovedIndexes(indexes, event) == Append(indexes, event.Index)

EventsPerBlock_Replace(eventsPerBlock, event) == <<event>>

\* line 188: a registered event goes at the end of the list of its block
EventsPerBlock(eventsPerBlock, event) == Append(eventsPerBlock, event)

PartitionStep_RemovedAdvance(st, event) ==
    IF event.Removed
    THEN [st EXCEPT !.toRemoveTable =
              OmSet(@, event.BlockNumber, Append(OmGet(@, event.BlockNumber), event.Index)),
                    !.lastBlockProcessed = WatermarkCandidate(@, event)]
    ELSE [st EXCEPT !.toInsertTable =
              OmSet(@, event.BlockNumber, Append(OmGet(@, event.BlockNumber), event)),
                    !.lastBlockProcessed = WatermarkCandidate(@, event)]

\* lines 174-194: the body of the loop over the events of the batch
PartitionStep(st, event) ==
    IF event.Removed
    THEN [st EXCEPT !.toRemoveTable =
              OmSet(@, event.BlockNumber, RemovedIndexes(OmGet(@, event.BlockNumber), event))]
    ELSE [st EXCEPT !.toInsertTable =
              OmSet(@, event.BlockNumber, EventsPerBlock(OmGet(@, event.BlockNumber), event)),
                    !.lastBlockProcessed = WatermarkCandidate(@, event)]

\* lines 169-195: the two tables and the candidate, event after event
RECURSIVE PartitionFrom(_, _, _)
PartitionFrom(events, i, st) ==
    IF i > Len(events) THEN st
    ELSE PartitionFrom(events, i + 1, PartitionStep(st, events[i]))

Partition(events, gmLast) ==
    PartitionFrom(events, 1,
        [toRemoveTable |-> OmNew, toInsertTable |-> OmNew,
         lastBlockProcessed |-> InitialCandidate(gmLast)])

RemoveWalk_OldestFirst(toRemove) == toRemove

\* line 372: RemoveMembers walks Newest() ... Prev()
RemoveWalk(toRemove) == Reverse(toRemove)
InsertWalk_NewestFirst(toInsert) == Reverse(toInsert)

\* line 340: InsertMembers walks Oldest() ... Next()
InsertWalk(toInsert) == toInsert

HandlerPasses_InsertFirst == <<"insert", "remove">>

\* lines 197-205: RemoveMembers runs first, InsertMembers second
HandlerPasses == <<"remove", "insert">>

PassPairs(pass, toRemove, toInsert) ==
    LET walk == IF pass = "remove" THEN RemoveWalk(toRemove) ELSE InsertWalk(toInsert)
    IN [i \in 1..Len(walk) |-> [pass |-> pass, Key |-> walk[i].Key, Value |-> walk[i].Value]]

\* the loop iterations handler goes through, in order, when nothing fails
HandlerPlan(toRemove, toInsert) ==
    PassPairs(HandlerPasses[1], toRemove, toInsert) \o PassPairs(HandlerPasses[2], toRemove, toInsert)

StartIndex_Last(events) == events[Len(events)].Index

\* lines 343-347 and 356: the index of the first event of the block group
StartIndex(events) == events[1].Index
\* lines 342-349: the commitments of the block group, in the order of the events
IdCommitments(events) == [i \in 1..Len(events) |-> events[i].IdCommitment]

LastBlockAfterAbort_Advance(gmLast, local) == local

\* lines 198-200, 203-205: a failed pass returns before line 207
LastBlockAfterAbort(gmLast, local) == gmLast

HandlerResult_Fatal(setMetadataError) == IF setMetadataError = "nil" THEN "nil" ELSE "SetMetadata"

\* lines 211-218: the error of SetMetadata is logged and handler returns nil
HandlerResult(setMetadataError) == "nil"

\* --------------------------------------- accumulator and root tracker
TreeSize == MaxIndex + MaxEvents
Slots == 0..(TreeSize - 1)
EmptyTree == [i \in Slots |-> 0]

\* rln.InsertMembers: contiguous slots from startIndex
RlnInsertMembers(t, startIndex, commitments) ==
    [i \in Slots |-> IF i >= startIndex /\ i < startIndex + Len(commitments)
                     THEN commitments[i - startIndex + 1] ELSE t[i]]
\* rln.DeleteMembers: clears the named slots, nothing is shifted
RlnDeleteMembers(t, indexes) ==
    [i \in Slots |-> IF \E j \in 1..Len(indexes) : indexes[j] = i THEN 0 ELSE t[i]]
\* the root of the tree: a collision-free digest of its content
RootOf(t) == t

\* MerkleRootTracker.UpdateLatestRoot: appends (blockNumber, current root)
UpdateLatestRoot(history, blockNumber, t) ==
    Append(history, [blockNumber |-> blockNumber, root |-> RootOf(t)])
\* MerkleRootTracker.Backfill: drops the entries at or after blockNumber
Backfill(history, blockNumber) ==
    SelectSeq(history, LAMBDA e : e.blockNumber < blockNumber)

InsertedTree_Append(t, group) ==
    LET free == {i \in Slots : t[i] = 0}
    IN RlnInsertMembers(t, IF free = {} THEN TreeSize ELSE SetMin(free), IdCommitments(group))

\* lines 356-357: the accumulator after gm.rln.InsertMembers(startIndex, idCommitments)
InsertedTree(t, group) == RlnInsertMembers(t, StartIndex(group), IdCommitments(group))

TreeAtUpdate_BeforeInsert(before, inserted) == before

\* lines 357-363: UpdateLatestRoot is called once gm.rln.InsertMembers has
\* returned, so the root it records is the one of the tree with the group in it
TreeAtUpdate(before, inserted) == inserted

\* rln.Flush: the tree, as it is when Flush runs, is made durable; durable is
\* the watermark SetMetadata had persisted by then
RlnFlush(t, durable) == [tree |-> t, durable |-> durable]
\* nothing has been flushed
NotFlushed == RlnFlush(EmptyTree, 0)

\* one recorded call of the accumulator or of the root tracker
Call(op, block, start, args, err) ==
    [op |-> op, block |-> block, start |-> start, args |-> args, err |-> err]

\* ------------------------------------------- waku_lightpush.pb.go (pure)
\* A string or a byte slice is the sequence of its bytes, a pointer field is
\* <<>> when nil and <<value>> when set. A WakuMessage (its code is that of
\* waku_message.pb.go) is taken by its encoding.
Chars == {97, 98}
LongString == [i \in 1..MaxLong |-> 97]
Strings == SeqsUpTo(Chars, MaxShort) \cup {LongString}
WakuMessages == {<<>>, <<10, 1, 97>>}
Pointers(S) == {<<>>} \cup {<<x>> : x \in S}

PushRequests ==
    [PubsubTopic : Strings, Message : Pointers(WakuMessages), XXX_unrecognized : {<<>>}]
PushResponses ==
    [IsSuccess : BOOLEAN, Info : Strings, XXX_unrecognized : {<<>>}]
PushRPCs ==
    [RequestId : Strings, Query : Pointers(PushRequests), Response : Pointers(PushResponses),
     XXX_unrecognized : {<<>>}]

\* the zero values Unmarshal starts from
EmptyPushRequest == [PubsubTopic |-> <<>>, Message |-> <<>>, XXX_unrecognized |-> <<>>]
EmptyPushResponse == [IsSuccess |-> FALSE, Info |-> <<>>, XXX_unrecognized |-> <<>>]
EmptyPushRPC == [RequestId |-> <<>>, Query |-> <<>>, Response |-> <<>>, XXX_unrecognized |-> <<>>]

RECURSIVE Pow2(_)
Pow2(n) == IF n = 0 THEN 1 ELSE 2 * Pow2(n - 1)

\* math_bits.Len64: the number of bits needed to write x
RECURSIVE Len64(_)
Len64(x) == IF x = 0 THEN 0 ELSE 1 + Len64(x \div 2)

sovWakuLightpush_OneByte(x) == 1

\* lines 450-452: (math_bits.Len64(x|1) + 6) / 7
sovWakuLightpush(x) == (Len64(IF x % 2 = 0 THEN x + 1 ELSE x) + 6) \div 7

\* lines 376-386: the bytes encodeVarintWakuLightpush writes, lowest group first
RECURSIVE encodeVarintWakuLightpush(_)
encodeVarintWakuLightpush(v) ==
    IF v >= 128
    THEN <<(v % 128) + 128>> \o encodeVarintWakuLightpush(v \div 128)
    ELSE <<v>>

\* WakuMessage.Size / MarshalToSizedBuffer / Unmarshal
WakuMessageSize(w) == Len(w)
WakuMessageMarshal(w) == w
WakuMessageUnmarshal(dAtA) == [err |-> "nil", m |-> dAtA]

\* a length-delimited field: tag, length, content (written back to front in the buffer)
Delimited(tag, content) == <<tag>> \o encodeVarintWakuLightpush(Len(content)) \o content

\* lines 387-405
PushRequestSize(p) ==
    IF p = <<>> THEN 0
    ELSE LET m == p[1]
             l1 == Len(m.PubsubTopic)
             l2 == IF m.Message # <<>> THEN WakuMessageSize(m.Message[1]) ELSE 0
         IN (IF l1 > 0 THEN 1 + l1 + sovWakuLightpush(l1) ELSE 0)
            + (IF m.Message # <<>> THEN 1 + l2 + sovWakuLightpush(l2) ELSE 0)
            + Len(m.XXX_unrecognized)

\* lines 407-424
PushResponseSize(p) ==
    IF p = <<>> THEN 0
    ELSE LET m == p[1]
             l == Len(m.Info)
         IN (IF m.IsSuccess THEN 2 ELSE 0)
            + (IF l > 0 THEN 1 + l + sovWakuLightpush(l) ELSE 0)
            + Len(m.XXX_unrecognized)

\* lines 426-448
PushRPCSize(p) ==
    IF p = <<>> THEN 0
    ELSE LET m == p[1]
             l1 == Len(m.RequestId)
             l2 == PushRequestSize(m.Query)
             l3 == PushResponseSize(m.Response)
         IN (IF l1 > 0 THEN 1 + l1 + sovWakuLightpush(l1) ELSE 0)
            + (IF m.Query # <<>> THEN 1 + l2 + sovWakuLightpush(l2) ELSE 0)
            + (IF m.Response # <<>> THEN 1 + l3 + sovWakuLightpush(l3) ELSE 0)
            + Len(m.XXX_unrecognized)

\* lines 243-272: what MarshalToSizedBuffer leaves at the end of the buffer
PushRequestMarshal(m) ==
    (IF Len(m.PubsubTopic) > 0 THEN Delimited(10, m.PubsubTopic) ELSE <<>>)
    \o (IF m.Message # <<>> THEN Delimited(18, WakuMessageMarshal(m.Message[1])) ELSE <<>>)
    \o m.XXX_unrecognized

\* lines 289-316
PushResponseMarshal(m) ==
    (IF m.IsSuccess THEN <<8, IF m.IsSuccess THEN 1 ELSE 0>> ELSE <<>>)
    \o (IF Len(m.Info) > 0 THEN Delimited(18, m.Info) ELSE <<>>)
    \o m.XXX_unrecognized

\* lines 333-374
PushRPCMarshal(m) ==
    (IF Len(m.RequestId) > 0 THEN Delimited(10, m.RequestId) ELSE <<>>)
    \o (IF m.Query # <<>> THEN Delimited(18, PushRequestMarshal(m.Query[1])) ELSE <<>>)
    \o (IF m.Response # <<>> THEN Delimited(26, PushResponseMarshal(m.Response[1])) ELSE <<>>)
    \o m.XXX_unrecognized

\* dAtA[from:to]
Slice(dAtA, from, to) == SubSeq(dAtA, from + 1, to)

\* the loop that reads one varint (lines 462-475 and its copies): the value,
\* the index after it, the error
RECURSIVE VarintLoop(_, _, _, _)
VarintLoop(dAtA, iNdEx, shift, acc) ==
    IF shift >= 64 THEN [err |-> "ErrIntOverflow", value |-> 0, iNdEx |-> iNdEx]
    ELSE IF iNdEx >= Len(dAtA) THEN [err |-> "ErrUnexpectedEOF", value |-> 0, iNdEx |-> iNdEx]
    ELSE IF dAtA[iNdEx + 1] < 128
         THEN [err |-> "nil", value |-> acc + dAtA[iNdEx + 1] * Pow2(shift), iNdEx |-> iNdEx + 1]
         ELSE VarintLoop(dAtA, iNdEx + 1, shift + 7, acc + (dAtA[iNdEx + 1] % 128) * Pow2(shift))

ReadVarint(dAtA, iNdEx) == VarintLoop(dAtA, iNdEx, 0, 0)

\* lines 504-516 and their copies: the bytes of a length-delimited field whose
\* length has been read (the lengths read here are far below the point where
\* int(stringLen) turns negative)
DelimitedBytes(dAtA, len) ==
    IF len.err # "nil" THEN [err |-> len.err, bytes |-> <<>>, iNdEx |-> len.iNdEx]
    ELSE IF len.iNdEx + len.value > Len(dAtA)
         THEN [err |-> "ErrUnexpectedEOF", bytes |-> <<>>, iNdEx |-> len.iNdEx]
    ELSE [err |-> "nil", bytes |-> Slice(dAtA, len.iNdEx, len.iNdEx + len.value),
          iNdEx |-> len.iNdEx + len.value]

\* lines 489-516 and their copies
ReadDelimited(dAtA, iNdEx) == DelimitedBytes(dAtA, ReadVarint(dAtA, iNdEx))

\* lines 853-901: where skipWakuLightpush is after the field of this tag
SkipField(wire, value, depth) ==
    CASE wire.value % 8 = 0 -> [err |-> value.err, iNdEx |-> value.iNdEx, depth |-> depth]
      [] wire.value % 8 = 1 -> [err |-> "nil", iNdEx |-> wire.iNdEx + 8, depth |-> depth]
      [] wire.value % 8 = 2 ->
           [err |-> value.err, iNdEx |-> value.iNdEx + value.value, depth |-> depth]
      [] wire.value % 8 = 3 -> [err |-> "nil", iNdEx |-> wire.iNdEx, depth |-> depth + 1]
      [] wire.value % 8 = 4 ->
           [err |-> IF depth = 0 THEN "ErrUnexpectedEndOfGroup" ELSE "nil",
            iNdEx |-> wire.iNdEx, depth |-> depth - 1]
      [] wire.value % 8 = 5 -> [err |-> "nil", iNdEx |-> wire.iNdEx + 4, depth |-> depth]
      [] OTHER -> [err |-> "illegal wireType", iNdEx |-> wire.iNdEx, depth |-> depth]

\* lines 833-910: the length of the field that starts dAtA
RECURSIVE SkipLoop(_, _, _)
SkipAfter(dAtA, after) ==
    IF after.err # "nil" THEN [err |-> after.err, n |-> 0]
    ELSE IF after.depth = 0 THEN [err |-> "nil", n |-> after.iNdEx]
    ELSE SkipLoop(dAtA, after.iNdEx, after.depth)

SkipTag(dAtA, depth, wire) ==
    IF wire.err # "nil" THEN [err |-> wire.err, n |-> 0]
    ELSE SkipAfter(dAtA, SkipField(wire, ReadVarint(dAtA, wire.iNdEx), depth))

SkipLoop(dAtA, iNdEx, depth) ==
    IF iNdEx >= Len(dAtA) THEN [err |-> "ErrUnexpectedEOF", n |-> 0]
    ELSE SkipTag(dAtA, depth, ReadVarint(dAtA, iNdEx))

skipWakuLightpush(dAtA) == SkipLoop(dAtA, 0, 0)

\* one iteration of the loop of Unmarshal: the error, the message, the index
Step(err, m, iNdEx) == [err |-> err, m |-> m, iNdEx |-> iNdEx]

\* the default branch of the switch (lines 553-566 and its copies): the field
\* is kept in XXX_unrecognized
Kept(dAtA, preIndex, m, skippy) ==
    IF skippy.err # "nil" THEN Step(skippy.err, m, preIndex)
    ELSE IF preIndex + skippy.n > Len(dAtA) THEN Step("ErrUnexpectedEOF", m, preIndex)
    ELSE Step("nil",
              [m EXCEPT !.XXX_unrecognized = @ \o Slice(dAtA, preIndex, preIndex + skippy.n)],
              preIndex + skippy.n)

Unrecognized(dAtA, preIndex, m) ==
    Kept(dAtA, preIndex, m, skipWakuLightpush(Slice(dAtA, preIndex, Len(dAtA))))

\* the head of one iteration (lines 460-483 and its copies): the tag
Tag(wire) ==
    [err |-> IF wire.err # "nil" THEN wire.err
             ELSE IF wire.value % 8 = 4 THEN "wiretype end group for non-group"
             ELSE IF wire.value \div 8 <= 0 THEN "illegal tag"
             ELSE "nil",
     fieldNum |-> wire.value \div 8, wireType |-> wire.value % 8, iNdEx |-> wire.iNdEx]

ReadTag(dAtA, iNdEx) == Tag(ReadVarint(dAtA, iNdEx))

\* a string field is assigned (lines 515-516 and its copies)
StringField(m, name, field) ==
    IF field.err # "nil" THEN Step(field.err, m, field.iNdEx)
    ELSE Step("nil", [m EXCEPT ![name] = field.bytes], field.iNdEx)

\* a message field is assigned and filled (lines 546-552 and its copies)
MessageField(m, name, field, inner) ==
    IF field.err # "nil" THEN Step(field.err, m, field.iNdEx)
    ELSE Step(inner.err, [m EXCEPT ![name] = <<inner.m>>], field.iNdEx)

\* the bool field is assigned (lines 608-623)
BoolField(m, name, v) ==
    IF v.err # "nil" THEN Step(v.err, m, v.iNdEx)
    ELSE Step("nil", [m EXCEPT ![name] = (v.value # 0)], v.iNdEx)

\* a nested message is allocated when the pointer is nil (lines 546-548, 768-770, 804-806)
Allocated(pointer, empty) == IF pointer = <<>> THEN empty ELSE pointer[1]

\* lines 484-567: the switch on the field number
PushRequestField(dAtA, preIndex, m, tag) ==
    IF tag.err # "nil" THEN Step(tag.err, m, preIndex)
    ELSE IF tag.fieldNum = 1
    THEN IF tag.wireType # 2 THEN Step("wrong wireType", m, preIndex)
         ELSE StringField(m, "PubsubTopic", ReadDelimited(dAtA, tag.iNdEx))
    ELSE IF tag.fieldNum = 2
    THEN IF tag.wireType # 2 THEN Step("wrong wireType", m, preIndex)
         ELSE MessageField(m, "Message", ReadDelimited(dAtA, tag.iNdEx),
                           WakuMessageUnmarshal(ReadDelimited(dAtA, tag.iNdEx).bytes))
    ELSE Unrecognized(dAtA, preIndex, m)

\* lines 456-574
RECURSIVE PushRequestLoop(_, _, _)
PushRequestNext(dAtA, step) ==
    IF step.err # "nil" THEN [err |-> step.err, m |-> step.m]
    ELSE PushRequestLoop(dAtA, step.iNdEx, step.m)

PushRequestLoop(dAtA, iNdEx, m) ==
    IF iNdEx >= Len(dAtA) THEN [err |-> "nil", m |-> m]
    ELSE PushRequestNext(dAtA, PushRequestField(dAtA, iNdEx, m, ReadTag(dAtA, iNdEx)))

PushRequestUnmarshal(dAtA, m) == PushRequestLoop(dAtA, 0, m)

\* lines 603-670: the switch on the field number
PushResponseField(dAtA, preIndex, m, tag) ==
    IF tag.err # "nil" THEN Step(tag.err, m, preIndex)
    ELSE IF tag.fieldNum = 1
    THEN IF tag.wireType # 0 THEN Step("wrong wireType", m, preIndex)
         ELSE BoolField(m, "IsSuccess", ReadVarint(dAtA, tag.iNdEx))
    ELSE IF tag.fieldNum = 2
    THEN IF tag.wireType # 2 THEN Step("wrong wireType", m, preIndex)
         ELSE StringField(m, "Info", ReadDelimited(dAtA, tag.iNdEx))
    ELSE Unrecognized(dAtA, preIndex, m)

\* lines 575-677
RECURSIVE PushResponseLoop(_, _, _)
PushResponseNext(dAtA, step) ==
    IF step.err # "nil" THEN [err |-> step.err, m |-> step.m]
    ELSE PushResponseLoop(dAtA, step.iNdEx, step.m)

PushResponseLoop(dAtA, iNdEx, m) ==
    IF iNdEx >= Len(dAtA) THEN [err |-> "nil", m |-> m]
    ELSE PushResponseNext(dAtA, PushResponseField(dAtA, iNdEx, m, ReadTag(dAtA, iNdEx)))

PushResponseUnmarshal(dAtA, m) == PushResponseLoop(dAtA, 0, m)

\* lines 706-825: the switch on the field number
PushRPCField(dAtA, preIndex, m, tag) ==
    IF tag.err # "nil" THEN Step(tag.err, m, preIndex)
    ELSE IF tag.fieldNum = 1
    THEN IF tag.wireType # 2 THEN Step("wrong wireType", m, preIndex)
         ELSE StringField(m, "RequestId", ReadDelimited(dAtA, tag.iNdEx))
    ELSE IF tag.fieldNum = 2
    THEN IF tag.wireType # 2 THEN Step("wrong wireType", m, preIndex)
         ELSE MessageField(m, "Query", ReadDelimited(dAtA, tag.iNdEx),
                           PushRequestUnmarshal(ReadDelimited(dAtA, tag.iNdEx).bytes,
                                                Allocated(m.Query, EmptyPushRequest)))
    ELSE IF tag.fieldNum = 3
    THEN IF tag.wireType # 2 THEN Step("wrong wireType", m, preIndex)
         ELSE MessageField(m, "Response", ReadDelimited(dAtA, tag.iNdEx),
                           PushResponseUnmarshal(ReadDelimited(dAtA, tag.iNdEx).bytes,
                                                 Allocated(m.Response, EmptyPushResponse)))
    ELSE Unrecognized(dAtA, preIndex, m)

\* lines 678-832
RECURSIVE PushRPCLoop(_, _, _)
PushRPCNext(dAtA, step) ==
    IF step.err # "nil" THEN [err |-> step.err, m |-> step.m]
    ELSE PushRPCLoop(dAtA, step.iNdEx, step.m)

PushRPCLoop(dAtA, iNdEx, m) ==
    IF iNdEx >= Len(dAtA) THEN [err |-> "nil", m |-> m]
    ELSE PushRPCNext(dAtA, PushRPCField(dAtA, iNdEx, m, ReadTag(dAtA, iNdEx)))

PushRPCUnmarshal(dAtA, m) == PushRPCLoop(dAtA, 0, m)

\* ------------------------------------------------------------------- state
VARIABLES
    keystoreIndex,          \* gm.keystoreIndex, fixed by NewDynamicGroupManager
    membershipGroupIndex,   \* gm.membershipGroupIndex, fixed by NewDynamicGroupManager
    cancel,                 \* gm.cancel: 0 when nil, else the caller whose Start made the context
    ctxDone,                \* the contexts that have been cancelled (named by caller)
    ethClient,              \* gm.ethClient: "nil", "open" or "closed"
    rln,                    \* gm.rln: "nil" or "set"
    rootTracker,            \* gm.rootTracker: "nil" or "set"
    identityCredential,     \* gm.identityCredential, Nil or the credential
    membershipIndex,        \* gm.membershipIndex, Nil or the tree index
    lastBlockProcessed,     \* gm.lastBlockProcessed
    wg,                     \* gm.wg: the counter of the wait group
    tree,                   \* the accumulator: slot -> commitment, 0 when empty
    rootHistory,            \* the root tracker: sequence of (blockNumber, root)
    flushed,                \* what the last rln.Flush made durable
    metadata,               \* the durable RLNMetadata.LastProcessedBlock
    metaLog,                \* the values passed to SetMetadata, in call order
    dials,                  \* number of ethclient.Dial calls that succeeded
    closes,                 \* number of ethClient.Close calls
    flushes,                \* number of rln.Flush calls
    pc,                     \* per caller: where it is inside Start or Stop
    ret,                    \* the last return of Start or Stop: operation, error
    nCalls,                 \* Start / Stop calls made so far
    credentials,            \* per caller, Start: what it read from the keystore (line 300)
    worker,                 \* per context: its goroutine, "none", "wait", "handler", "returned", "exited"
    events,                 \* handler: the batch it was called with
    toRemoveTable,          \* handler: block -> removed indexes
    toInsertTable,          \* handler: block -> registered events
    candidate,              \* handler: the local lastBlockProcessed
    entry,                  \* handler: the watermark state of the manager when it was called
    pos,                    \* handler: the iteration of HandlerPlan it is at
    calls,                  \* the accumulator / tracker calls of this handler run
    handlerErr,             \* what the last handler run returned, "none" before
    firstRun,               \* replay: the accumulator after the first run of the batch being run again
    setMetadataErr,         \* what SetMetadata returned in this handler run: "none", "nil", "failed"
    nBatches,               \* batches received so far
    nEvents,                \* events received so far
    startOK,                \* some Start has returned nil
    expectedWatermark,      \* max block of the registrations of the completed batches
    pbIn,                   \* lightpush codec: the message handed to Marshal, with its type
    pbBytes,                \* lightpush codec: what Marshal returned
    pbSize,                 \* lightpush codec: what Size returned
    pbOut,                  \* lightpush codec: what Unmarshal made of pbBytes
    pbStep                  \* lightpush codec: "none", "input", "marshalled", "unmarshalled"

gmVars == <<cancel, ctxDone, ethClient, rln, rootTracker, identityCredential,
            membershipIndex, wg, dials, closes, flushes, startOK>>
cfgVars == <<keystoreIndex, membershipGroupIndex>>
callerVars == <<pc, ret, nCalls, credentials>>
treeVars == <<tree, rootHistory, flushed>>
metaVars == <<lastBlockProcessed, metadata, metaLog, expectedWatermark>>
handlerVars == <<events, toRemoveTable, toInsertTable, candidate, entry, pos, calls, handlerErr,
                 setMetadataErr, firstRun, nBatches, nEvents>>
pbVars == <<pbIn, pbBytes, pbSize, pbOut, pbStep>>
vars == <<cfgVars, gmVars, callerVars, treeVars, metaVars, worker, handlerVars, pbVars>>

NoRet == [op |-> "none", err |-> "none"]
WatermarkState == [last |-> lastBlockProcessed, durable |-> metadata, persisted |-> Len(metaLog)]
NoEntry == [last |-> 0, durable |-> 0, persisted |-> 0]
\* the batch being handled is not a replay
NoReplay == [replay |-> FALSE, tree |-> EmptyTree]
Ret(c, op, err) == [op |-> op, err |-> err]
\* the keystore has not been read by this call
NotRead == [read |-> FALSE, list |-> <<>>]

\* no lightpush message is being encoded
NoMessage == [type |-> "none", m |-> <<>>]
NoResult == [err |-> "none", m |-> <<>>]
PbIdle ==
    /\ pbIn = NoMessage
    /\ pbBytes = <<>>
    /\ pbSize = 0
    /\ pbOut = NoResult
    /\ pbStep = "none"

\* The state NewDynamicGroupManager leaves: every field not listed in the
\* struct literal holds its zero value.
NewDynamicGroupManager ==
    /\ keystoreIndex \in {0, MaxCreds - 1}          \* the first or the last index a keystore can hold
    /\ membershipGroupIndex \in {0, MaxGroups - 1}
    /\ cancel = 0
    /\ ctxDone = {}
    /\ ethClient = "nil"
    /\ rln = "nil"
    /\ rootTracker = "nil"
    /\ identityCredential = Nil
    /\ membershipIndex = Nil
    /\ lastBlockProcessed = 0
    /\ wg = 0
    /\ tree = EmptyTree
    /\ rootHistory = <<>>
    /\ flushed = NotFlushed
    /\ metadata = 0
    /\ metaLog = <<>>
    /\ dials = 0
    /\ closes = 0
    /\ flushes = 0
    /\ pc = [c \in Threads |-> "idle"]
    /\ ret = NoRet
    /\ nCalls = 0
    /\ credentials = [c \in Threads |-> NotRead]
    /\ worker = [c \in Threads |-> "none"]
    /\ events = <<>>
    /\ toRemoveTable = OmNew
    /\ toInsertTable = OmNew
    /\ candidate = 0
    /\ entry = NoEntry
    /\ pos = 0
    /\ calls = <<>>
    /\ handlerErr = "none"
    /\ setMetadataErr = "none"
    /\ firstRun = NoReplay
    /\ nBatches = 0
    /\ nEvents = 0
    /\ startOK = FALSE
    /\ expectedWatermark = 0

Init == NewDynamicGroupManager /\ PbIdle

\* an unrecovered panic ends the process
Panicked == \E c \in Threads : pc[c] = "panicked"

\* ------------------------------------------------ the background worker
\* The worker waits for the next batch of events; the cancellation of the
\* context is looked at there, at the top of its loop.
WorkerExit(w) ==
    /\ ~Panicked
    /\ worker[w] = "wait"
    /\ w \in ctxDone
    /\ worker' = [worker EXCEPT ![w] = "exited"]
    /\ wg' = wg - 1
    /\ UNCHANGED <<pbVars, cfgVars, cancel, ctxDone, ethClient, rln, rootTracker, identityCredential,
                   membershipIndex, dials, closes, flushes, startOK,
                   callerVars, treeVars, metaVars, handlerVars>>

\* handler, lines 169-195: a batch arrives and is partitioned
HandlerBegin(w, batch) ==
    /\ LET st == Partition(batch, lastBlockProcessed)
       IN /\ toRemoveTable' = st.toRemoveTable
          /\ toInsertTable' = st.toInsertTable
          /\ candidate' = st.lastBlockProcessed
    /\ events' = batch
    /\ entry' = WatermarkState
    /\ pos' = 1
    /\ calls' = <<>>
    /\ handlerErr' = "none"
    /\ setMetadataErr' = "none"
    /\ nBatches' = nBatches + 1
    /\ nEvents' = nEvents + Len(batch)
    /\ worker' = [worker EXCEPT ![w] = "handler"]
    /\ UNCHANGED <<pbVars, cfgVars, gmVars, callerVars, treeVars, metaVars>>

\* The worker is handed the next batch of events and calls handler on it.
WorkerReceive(w, universe, maxEvents, maxBatches) ==
    /\ ~Panicked
    /\ worker[w] = "wait"
    /\ w \notin ctxDone
    /\ \A u \in Threads : worker[u] \notin {"handler", "returned"}
    /\ nBatches < maxBatches
    /\ firstRun' = NoReplay
    /\ \E batch \in SeqsUpTo(universe, maxEvents - nEvents) : HandlerBegin(w, batch)

\* The worker is handed again the batch of registrations that handler has just
\* completed (the same events, the same indexes), and calls handler on it.
WorkerReplay(w) ==
    /\ ~Panicked
    /\ worker[w] = "returned"
    /\ handlerErr = "nil"
    /\ ~firstRun.replay
    /\ Len(events) > 0
    /\ \A i \in 1..Len(events) : ~events[i].Removed
    /\ firstRun' = [replay |-> TRUE, tree |-> tree]
    /\ HandlerBegin(w, events)

\* handler returns the error of a failed pass (lines 198-200, 203-205)
Abort(w, op, newCalls) ==
    /\ calls' = newCalls
    /\ handlerErr' = op
    /\ lastBlockProcessed' = LastBlockAfterAbort(lastBlockProcessed, candidate)
    /\ worker' = [worker EXCEPT ![w] = "returned"]
    /\ UNCHANGED <<pos, metadata, metaLog, expectedWatermark>>

\* one iteration of RemoveMembers (lines 372-380)
RemoveIteration(w, pair) ==
    \/ /\ Abort(w, "DeleteMembers", Append(calls, Call("DeleteMembers", pair.Key, 0, pair.Value, TRUE)))
       /\ UNCHANGED treeVars
    \/ /\ tree' = RlnDeleteMembers(tree, pair.Value)
       /\ rootHistory' = Backfill(rootHistory, pair.Key)
       /\ calls' = calls \o <<Call("DeleteMembers", pair.Key, 0, pair.Value, FALSE),
                              Call("Backfill", pair.Key, 0, <<>>, FALSE)>>
       /\ pos' = pos + 1
       /\ UNCHANGED <<flushed, worker, handlerErr, metaVars>>

\* one iteration of InsertMembers (lines 340-367)
InsertIteration(w, pair) ==
    LET startIndex == StartIndex(pair.Value)
        idCommitments == IdCommitments(pair.Value)
        inserted == InsertedTree(tree, pair.Value)
    IN \/ /\ Abort(w, "InsertMembers",
                   Append(calls, Call("InsertMembers", pair.Key, startIndex, idCommitments, TRUE)))
          /\ UNCHANGED treeVars
       \/ /\ Abort(w, "UpdateLatestRoot",
                   calls \o <<Call("InsertMembers", pair.Key, startIndex, idCommitments, FALSE),
                              Call("UpdateLatestRoot", pair.Key, 0, <<>>, TRUE)>>)
          /\ tree' = inserted
          /\ UNCHANGED <<rootHistory, flushed>>
       \/ /\ tree' = inserted
          /\ rootHistory' = UpdateLatestRoot(rootHistory, pair.Key, TreeAtUpdate(tree, inserted))
          /\ calls' = calls \o <<Call("InsertMembers", pair.Key, startIndex, idCommitments, FALSE),
                                 Call("UpdateLatestRoot", pair.Key, 0, <<>>, FALSE)>>
          /\ pos' = pos + 1
          /\ UNCHANGED <<flushed, worker, handlerErr, metaVars>>

\* handler, lines 197-205: the next iteration of the pass it is in
HandlerStep(w) ==
    /\ ~Panicked
    /\ worker[w] = "handler"
    /\ pos <= Len(HandlerPlan(toRemoveTable, toInsertTable))
    /\ LET pair == HandlerPlan(toRemoveTable, toInsertTable)[pos]
       IN IF pair.pass = "remove" THEN RemoveIteration(w, pair) ELSE InsertIteration(w, pair)
    /\ UNCHANGED <<pbVars, cfgVars, gmVars, callerVars, events, toRemoveTable, toInsertTable,
                   candidate, entry, setMetadataErr, firstRun, nBatches, nEvents>>

\* handler, lines 207-218: both passes succeeded
HandlerFinish(w) ==
    /\ ~Panicked
    /\ worker[w] = "handler"
    /\ pos > Len(HandlerPlan(toRemoveTable, toInsertTable))
    /\ lastBlockProcessed' = candidate
    /\ metaLog' = Append(metaLog, candidate)
    /\ \E err \in {"nil", "failed"} :
          /\ setMetadataErr' = err
          /\ metadata' = IF err = "nil" THEN candidate ELSE metadata
          /\ handlerErr' = HandlerResult(err)
    /\ worker' = [worker EXCEPT ![w] = "returned"]
    /\ expectedWatermark' =
          SetMax({expectedWatermark} \cup
                 {events[i].BlockNumber : i \in {j \in 1..Len(events) : ~events[j].Removed}})
    /\ UNCHANGED <<pbVars, cfgVars, gmVars, callerVars, treeVars, events, toRemoveTable,
                   toInsertTable, candidate, entry, pos, calls, firstRun, nBatches, nEvents>>

\* handler has returned: its locals are gone and the worker is back at the
\* top of its loop
WorkerLoop(w) ==
    /\ ~Panicked
    /\ worker[w] = "returned"
    /\ worker' = [worker EXCEPT ![w] = "wait"]
    /\ events' = <<>>
    /\ toRemoveTable' = OmNew
    /\ toInsertTable' = OmNew
    /\ candidate' = 0
    /\ entry' = NoEntry
    /\ pos' = 0
    /\ calls' = <<>>
    /\ handlerErr' = "none"
    /\ setMetadataErr' = "none"
    /\ UNCHANGED <<pbVars, cfgVars, gmVars, callerVars, treeVars, metaVars, firstRun, nBatches, nEvents>>

\* ------------------------------------------------------------------ Start
\* What can go wrong in the collaborators Start calls, one per run of its body.
StartFailures == {"none", "dial", "chainid", "contract", "probe", "keystore", "updates"}

SelectCredential_GroupOffByOne(creds, ic, mi) ==
    IF Len(creds) # 0
    THEN IF keystoreIndex <= Len(creds) - 1
         THEN IF membershipGroupIndex <= creds[keystoreIndex + 1]
              THEN [err |-> "nil", identityCredential |-> IdentityOf(keystoreIndex),
                    membershipIndex |-> TreeIndexOf(keystoreIndex, membershipGroupIndex)]
              ELSE [err |-> "invalid membership group index",
                    identityCredential |-> IdentityOf(keystoreIndex), membershipIndex |-> mi]
         ELSE [err |-> "invalid keystore index", identityCredential |-> ic, membershipIndex |-> mi]
    ELSE [err |-> "nil", identityCredential |-> ic, membershipIndex |-> mi]

\* lines 313-325: the selection of the credential and of its membership group
SelectCredential(creds, ic, mi) ==
    IF Len(creds) # 0
    THEN IF keystoreIndex <= Len(creds) - 1
         THEN IF membershipGroupIndex <= creds[keystoreIndex + 1] - 1
              THEN [err |-> "nil", identityCredential |-> IdentityOf(keystoreIndex),
                    membershipIndex |-> TreeIndexOf(keystoreIndex, membershipGroupIndex)]
              ELSE [err |-> "invalid membership group index",
                    identityCredential |-> IdentityOf(keystoreIndex), membershipIndex |-> mi]
         ELSE [err |-> "invalid keystore index", identityCredential |-> ic, membershipIndex |-> mi]
    ELSE [err |-> "nil", identityCredential |-> ic, membershipIndex |-> mi]

CredentialsAvailable_Unchecked(ic, mi) == TRUE

\* line 328: both the credential and the index are resolved
CredentialsAvailable(ic, mi) == ic # Nil /\ mi # Nil

\* lines 313-330: the credentials, given what this Start read from the keystore
ResolveCredentials(local) ==
    LET sel == IF local.read
               THEN SelectCredential(local.list, identityCredential, membershipIndex)
               ELSE [err |-> "nil", identityCredential |-> identityCredential,
                     membershipIndex |-> membershipIndex]
    IN IF sel.err = "nil" /\ ~CredentialsAvailable(sel.identityCredential, sel.membershipIndex)
       THEN [sel EXCEPT !.err = "no credentials available"]
       ELSE sel

\* line 265: the guard of Start
AlreadyStarted == cancel # 0

\* lines 265-267
StartGuard(c) ==
    /\ ~Panicked
    /\ pc[c] = "idle"
    /\ nCalls < MaxCalls
    /\ nCalls' = nCalls + 1
    /\ IF AlreadyStarted
       THEN /\ ret' = Ret(c, "Start", "already started")
            /\ pc' = pc
       ELSE /\ ret' = ret
            /\ pc' = [pc EXCEPT ![c] = "start_cancel"]
    /\ UNCHANGED <<pbVars, cfgVars, gmVars, credentials, treeVars, metaVars, worker, handlerVars>>

\* lines 269-270
StartSetCancel(c) ==
    /\ ~Panicked
    /\ pc[c] = "start_cancel"
    /\ cancel' = c
    /\ pc' = [pc EXCEPT ![c] = "start_body"]
    /\ UNCHANGED <<pbVars, cfgVars, ctxDone, ethClient, rln, rootTracker, identityCredential,
                   membershipIndex, wg, dials, closes, flushes, startOK,
                   ret, nCalls, credentials, treeVars, metaVars, worker, handlerVars>>

\* Start returns err from its body
StartReturn(c, err) ==
    /\ ret' = Ret(c, "Start", err)
    /\ pc' = [pc EXCEPT ![c] = "idle"]
    /\ startOK' = (startOK \/ err = "nil")

\* HandleGroupUpdates: spawns the worker that holds the context of this Start
HandleGroupUpdates(c) ==
    /\ worker' = [worker EXCEPT ![c] = "wait"]
    /\ wg' = wg + 1

\* the Start calls that overlap read the same keystore file
SameKeystore(creds) ==
    \A d \in Threads : credentials[d].read => credentials[d].list = creds

\* line 300: keystore.GetMembershipCredentials returned creds
ReadKeystore(c, creds) ==
    /\ SameKeystore(creds)
    /\ credentials' = [credentials EXCEPT ![c] = [read |-> TRUE, list |-> creds]]
    /\ pc' = [pc EXCEPT ![c] = "start_select"]
    /\ UNCHANGED <<ret, startOK>>

\* lines 272-311, given what the collaborators do
StartOutcome(c, failure) ==
    /\ IF failure = "dial"
       THEN /\ StartReturn(c, "dial")
            /\ UNCHANGED <<ethClient, rln, rootTracker, dials, credentials>>
       ELSE /\ ethClient' = "open"
            /\ dials' = dials + 1
            /\ rln' = "set"
            /\ rootTracker' = "set"
            /\ IF failure \in {"chainid", "contract", "probe"}
               THEN StartReturn(c, failure) /\ UNCHANGED credentials
               ELSE IF identityCredential = Nil
                    THEN IF failure = "keystore"
                         THEN StartReturn(c, "keystore") /\ UNCHANGED credentials
                         ELSE \E creds \in CredLists : ReadKeystore(c, creds)
                    ELSE /\ failure = "none"
                         /\ pc' = [pc EXCEPT ![c] = "start_select"]
                         /\ UNCHANGED <<ret, startOK, credentials>>
    /\ UNCHANGED <<pbVars, cfgVars, cancel, ctxDone, identityCredential, membershipIndex, wg,
                   closes, flushes, nCalls, treeVars, metaVars, worker, handlerVars>>

\* lines 272-311
StartBody(c) ==
    /\ ~Panicked
    /\ pc[c] = "start_body"
    /\ \E failure \in StartFailures \ {"updates"} : StartOutcome(c, failure)

\* lines 313-336
StartSelect(c) ==
    /\ ~Panicked
    /\ pc[c] = "start_select"
    /\ LET sel == ResolveCredentials(credentials[c])
       IN /\ identityCredential' = sel.identityCredential
          /\ membershipIndex' = sel.membershipIndex
          /\ IF sel.err # "nil"
             THEN StartReturn(c, sel.err) /\ UNCHANGED <<worker, wg>>
             ELSE \E failure \in {"none", "updates"} :
                     IF failure = "updates"
                     THEN StartReturn(c, "updates") /\ UNCHANGED <<worker, wg>>
                     ELSE StartReturn(c, "nil") /\ HandleGroupUpdates(c)
    /\ credentials' = [credentials EXCEPT ![c] = NotRead]
    /\ UNCHANGED <<pbVars, cfgVars, cancel, ctxDone, ethClient, rln, rootTracker, dials, closes,
                   flushes, nCalls, treeVars, metaVars, handlerVars>>

\* ------------------------------------------------------------------- Stop
StopIsNoop_Never == FALSE

\* line 403: Stop does nothing on a manager whose gm.cancel is nil
StopIsNoop == cancel = 0

CredentialAfterStop_Cleared(value) == Nil

\* lines 402-418: Stop assigns neither gm.identityCredential nor gm.membershipIndex
CredentialAfterStop(value) == value

\* lines 403-407
StopBegin(c) ==
    /\ ~Panicked
    /\ pc[c] = "idle"
    /\ nCalls < MaxCalls
    /\ nCalls' = nCalls + 1
    /\ IF StopIsNoop
       THEN /\ ret' = Ret(c, "Stop", "nil")
            /\ UNCHANGED <<pc, ctxDone, identityCredential, membershipIndex>>
       ELSE /\ ctxDone' = ctxDone \cup {cancel}
            /\ ret' = ret
            /\ pc' = [pc EXCEPT ![c] = "stop_flush"]
            /\ identityCredential' = CredentialAfterStop(identityCredential)
            /\ membershipIndex' = CredentialAfterStop(membershipIndex)
    /\ UNCHANGED <<pbVars, cfgVars, cancel, ethClient, rln, rootTracker,
                   wg, dials, closes, flushes, startOK, credentials,
                   treeVars, metaVars, worker, handlerVars>>

\* lines 409-412: a failed Flush makes Stop return at once
FlushFailed(c) ==
    /\ ret' = Ret(c, "Stop", "flush")
    /\ pc' = [pc EXCEPT ![c] = "idle"]

\* lines 409-412
StopFlush(c) ==
    /\ ~Panicked
    /\ pc[c] = "stop_flush"
    /\ IF rln = "nil"
       THEN /\ pc' = [pc EXCEPT ![c] = "panicked"]
            /\ UNCHANGED <<ret, flushes, flushed>>
       ELSE /\ flushes' = flushes + 1
            /\ \/ FlushFailed(c) /\ UNCHANGED flushed
               \/ /\ flushed' = RlnFlush(tree, metadata)
                  /\ pc' = [pc EXCEPT ![c] = "stop_close"]
                  /\ UNCHANGED ret
    /\ UNCHANGED <<pbVars, cfgVars, cancel, ctxDone, ethClient, rln, rootTracker, identityCredential,
                   membershipIndex, wg, dials, closes, startOK, nCalls, credentials,
                   tree, rootHistory, metaVars, worker, handlerVars>>

\* line 413
StopClose(c) ==
    /\ ~Panicked
    /\ pc[c] = "stop_close"
    /\ IF ethClient = "nil"
       THEN /\ pc' = [pc EXCEPT ![c] = "panicked"]
            /\ UNCHANGED <<ethClient, closes>>
       ELSE /\ ethClient' = "closed"
            /\ closes' = closes + 1
            /\ pc' = [pc EXCEPT ![c] = "stop_wait"]
    /\ UNCHANGED <<pbVars, cfgVars, cancel, ctxDone, rln, rootTracker, identityCredential,
                   membershipIndex, wg, dials, flushes, startOK, ret, nCalls, credentials,
                   treeVars, metaVars, worker, handlerVars>>

\* lines 415-417: wg.Wait returns once the counter is zero
StopWait(c) ==
    /\ ~Panicked
    /\ pc[c] = "stop_wait"
    /\ wg = 0
    /\ ret' = Ret(c, "Stop", "nil")
    /\ pc' = [pc EXCEPT ![c] = "idle"]
    /\ UNCHANGED <<pbVars, cfgVars, gmVars, nCalls, credentials, treeVars, metaVars, worker, handlerVars>>

\* -------------------------------------------------------------- accessors
\* lines 385-391
IdentityCredentials ==
    IF identityCredential = Nil
    THEN [value |-> 0, err |-> "identity credential has not been setup"]
    ELSE [value |-> identityCredential, err |-> "nil"]

\* lines 393-399
MembershipIndex ==
    IF membershipIndex = Nil
    THEN [value |-> 0, err |-> "membership index has not been setup"]
    ELSE [value |-> membershipIndex, err |-> "nil"]

\* ------------------------------------------------- the lightpush codec
\* the messages handed to the codec, each with its type
PbMessages ==
    {[type |-> "PushRequest", m |-> m] : m \in PushRequests}
    \cup {[type |-> "PushResponse", m |-> m] : m \in PushResponses}
    \cup {[type |-> "PushRPC", m |-> m] : m \in PushRPCs}

\* m.Size()
Size(in) ==
    CASE in.type = "PushRequest" -> PushRequestSize(<<in.m>>)
      [] in.type = "PushResponse" -> PushResponseSize(<<in.m>>)
      [] in.type = "PushRPC" -> PushRPCSize(<<in.m>>)

\* m.Marshal(), lines 228-236, 274-282, 318-326
Marshal(in) ==
    CASE in.type = "PushRequest" -> PushRequestMarshal(in.m)
      [] in.type = "PushResponse" -> PushResponseMarshal(in.m)
      [] in.type = "PushRPC" -> PushRPCMarshal(in.m)

\* Unmarshal of dAtA into a new message of the type
Unmarshal(type, dAtA) ==
    CASE type = "PushRequest" -> PushRequestUnmarshal(dAtA, EmptyPushRequest)
      [] type = "PushResponse" -> PushResponseUnmarshal(dAtA, EmptyPushResponse)
      [] type = "PushRPC" -> PushRPCUnmarshal(dAtA, EmptyPushRPC)

\* the message is marshalled and its Size is taken
PbMarshal ==
    /\ pbStep = "input"
    /\ pbBytes' = Marshal(pbIn)
    /\ pbSize' = Size(pbIn)
    /\ pbStep' = "marshalled"
    /\ UNCHANGED <<pbIn, pbOut, cfgVars, gmVars, callerVars, treeVars, metaVars, worker, handlerVars>>

\* the bytes are unmarshalled into a new message of the same type
PbUnmarshal ==
    /\ pbStep = "marshalled"
    /\ pbOut' = Unmarshal(pbIn.type, pbBytes)
    /\ pbStep' = "unmarshalled"
    /\ UNCHANGED <<pbIn, pbBytes, pbSize, cfgVars, gmVars, callerVars, treeVars, metaVars, worker,
                   handlerVars>>

\* ------------------------------------------------------- specifications
\* The lifecycle: every caller, Start and Stop, the worker on batches of LifeEvents.
Next ==
    \/ \E c \in Callers : StartGuard(c)
    \/ \E c \in Callers : StartSetCancel(c)
    \/ \E c \in Callers : StartBody(c)
    \/ \E c \in Callers : StartSelect(c)
    \/ \E c \in Callers : StopBegin(c)
    \/ \E c \in Callers : StopFlush(c)
    \/ \E c \in Callers : StopClose(c)
    \/ \E c \in Callers : StopWait(c)
    \/ \E w \in Callers : WorkerExit(w)
    \/ \E w \in Callers : WorkerReceive(w, LifeEvents, LifeMaxEvents, LifeMaxEvents)
    \/ \E w \in Callers : HandlerStep(w)
    \/ \E w \in Callers : HandlerFinish(w)
    \/ \E w \in Callers : WorkerLoop(w)

Spec == Init /\ [][Next]_vars

\* The reconciliation: one caller starts the manager, the worker handles
\* batches that hold up to MaxEvents events in all.
InitSync == Init /\ keystoreIndex = 0 /\ membershipGroupIndex = 0

\* The lightpush codec: a message is marshalled, then unmarshalled.
InitPb ==
    /\ NewDynamicGroupManager
    /\ keystoreIndex = 0
    /\ membershipGroupIndex = 0
    /\ pbIn \in PbMessages
    /\ pbBytes = <<>>
    /\ pbSize = 0
    /\ pbOut = NoResult
    /\ pbStep = "input"

NextPb == PbMarshal \/ PbUnmarshal

SpecPb == InitPb /\ [][NextPb]_vars

NextSync ==
    \/ StartGuard(1)
    \/ StartSetCancel(1)
    \/ StartBody(1)
    \/ StartSelect(1)
    \/ WorkerReceive(1, Events, MaxEvents, MaxBatches)
    \/ HandlerStep(1)
    \/ HandlerFinish(1)
    \/ WorkerLoop(1)

SpecSync == InitSync /\ [][NextSync]_vars

\* The reconciliation with replay: a completed batch of registrations may be
\* delivered a second time.
NextReplay ==
    \/ StartGuard(1)
    \/ StartSetCancel(1)
    \/ StartBody(1)
    \/ StartSelect(1)
    \/ WorkerReceive(1, Events, MaxEvents, MaxBatches)
    \/ WorkerReplay(1)
    \/ HandlerStep(1)
    \/ HandlerFinish(1)
    \/ WorkerLoop(1)

SpecReplay == InitSync /\ [][NextReplay]_vars

\* Overlapping Start calls: two goroutines call Start on the same manager.
NextRace ==
    \/ \E c \in Racers : StartGuard(c)
    \/ \E c \in Racers : StartSetCancel(c)
    \/ \E c \in Racers : StartBody(c)
    \/ \E c \in Racers : StartSelect(c)

SpecRace == Init /\ [][NextRace]_vars

\* ------------------------------------------------- vocabulary of the claims
\* the events of a batch that belong to one block, in arrival order
GroupOf(batch, block, removed) ==
    SelectSeq(batch, LAMBDA e : e.BlockNumber = block /\ e.Removed = removed)
\* the blocks that carry removed (or registered) events in a batch
BlocksOf(batch, removed) ==
    {batch[i].BlockNumber : i \in {j \in 1..Len(batch) : batch[j].Removed = removed}}
\* where a block first shows up among the removed (or registered) events
FirstPos(batch, block, removed) ==
    SetMin({i \in 1..Len(batch) : batch[i].BlockNumber = block /\ batch[i].Removed = removed})
\* those blocks, in the order in which they first arrive
ArrivalOrder(batch, removed) ==
    LET bs == BlocksOf(batch, removed)
    IN [k \in 1..Cardinality(bs) |->
          CHOOSE b \in bs :
              Cardinality({c \in bs : FirstPos(batch, c, removed) < FirstPos(batch, b, removed)}) = k - 1]
\* the registered (or removed) events of a batch arrive in non-decreasing block order
ArrivesInBlockOrder(batch, removed) ==
    \A i, j \in 1..Len(batch) :
        (i < j /\ batch[i].Removed = removed /\ batch[j].Removed = removed)
            => batch[i].BlockNumber <= batch[j].BlockNumber

CallsOf(op) == SelectSeq(calls, LAMBDA k : k.op = op)
CallBlocks(op) == [i \in 1..Len(CallsOf(op)) |-> CallsOf(op)[i].block]
IsPrefix(s, t) == Len(s) <= Len(t) /\ \A i \in 1..Len(s) : s[i] = t[i]
StrictlyIncreasing(s) == \A i \in 1..(Len(s) - 1) : s[i] < s[i + 1]
StrictlyDecreasing(s) == \A i \in 1..(Len(s) - 1) : s[i] > s[i + 1]
NonDecreasing(s) == \A i \in 1..(Len(s) - 1) : s[i] <= s[i + 1]
HandlerErrors == {"DeleteMembers", "InsertMembers", "UpdateLatestRoot"}
\* a batch that holds removed events only
RemovalOnly(batch) == Len(batch) > 0 /\ \A i \in 1..Len(batch) : batch[i].Removed
\* the highest block among the registrations of the batch and the watermark at entry
HighestRegistered ==
    SetMax({entry.last} \cup
           {events[i].BlockNumber : i \in {j \in 1..Len(events) : ~events[j].Removed}})
\* a completed batch of removals only: every removed slot is empty, the root
\* history holds nothing at or after the lowest removed block, the watermark
\* is the one at entry
RemovalOnlyApplied ==
    RemovalOnly(events) =>
        /\ \A i \in 1..Len(events) : tree[events[i].Index] = 0
        /\ \A h \in 1..Len(rootHistory) :
              rootHistory[h].blockNumber < SetMin(BlocksOf(events, TRUE))
        /\ lastBlockProcessed = entry.last
StartPcs == {"start_cancel", "start_body", "start_select"}
StopPcs == {"stop_flush", "stop_close", "stop_wait"}
NoWorkerAlive == \A w \in Threads : worker[w] \in {"none", "exited"}
StartFails(c) == pc[c] \in {"start_body", "start_select"} /\ pc'[c] = "idle" /\ ret'.err # "nil"
StopReturns(c) == pc[c] \in StopPcs /\ pc'[c] = "idle"
\* no Start has been called: a Start call either is running or has set gm.cancel
\* this step is the return of a Start that had read the keystore
StartSelects(c) == pc[c] = "start_select" /\ pc'[c] = "idle"
\* what the keystore returned does not hold the configured credential:
\* nothing for the contract, too few credentials, or too few membership groups
UnusableAnswer(local) ==
    /\ local.read
    /\ \/ Len(local.list) = 0
       \/ keystoreIndex >= Len(local.list)
       \/ membershipGroupIndex >= local.list[keystoreIndex + 1]
ConfigurationErrors ==
    {"invalid keystore index", "invalid membership group index", "no credentials available"}
NeverStarted == cancel = 0 /\ \A c \in Threads : pc[c] \notin StartPcs
\* a call is made by this step and it is not a Start that passes the guard
StopCalled == nCalls' = nCalls + 1 /\ \A c \in Threads : pc'[c] \notin StartPcs

\* a batch is in flight: handler has been called on it and still has accumulator
\* operations to make
MutationPending ==
    \E w \in Threads :
        worker[w] = "handler" /\ pos <= Len(HandlerPlan(toRemoveTable, toInsertTable))
\* this step is the rln.Flush of Stop (line 409)
StopFlushes(c) == pc[c] = "stop_flush" /\ flushes' = flushes + 1
\* the batch holds a registration
HasRegistration(batch) == \E i \in 1..Len(batch) : ~batch[i].Removed
\* the newest root of the history is the root of the accumulator
NewestRootIsCurrent ==
    Len(rootHistory) > 0 /\ rootHistory[Len(rootHistory)].root = RootOf(tree)
\* Stop is about to call Flush on a nil gm.rln (line 409) or Close on a nil
\* gm.ethClient (line 413)
StopOnUnassigned(c) ==
    \/ pc[c] = "stop_flush" /\ rln = "nil"
    \/ pc[c] = "stop_close" /\ ethClient = "nil"
\* the positions of the calls of one operation in this handler run
CallPositions(op) == {i \in 1..Len(calls) : calls[i].op = op}
\* the indexes of the removed events of a block, in arrival order
RemovedIndexesOf(batch, block) ==
    LET group == GroupOf(batch, block, TRUE)
    IN [j \in 1..Len(group) |-> group[j].Index]
\* the keys of an ordered map, and whether no key is held twice
OmKeys(t) == {t[i].Key : i \in 1..Len(t)}
OmKeysDistinct(t) == \A i, j \in 1..Len(t) : t[i].Key = t[j].Key => i = j

\* ----------------------------------------------------------------- claims
\* C1: whenever Start returns an error from its body (dial, ChainID, contract,
\* probe, keystore, index or credential failure), the manager is back in the
\* Idle state: gm.cancel is nil again, so that the guard of a later Start
\* does not answer "already started".
C1_FailedStartLeavesIdle ==
    [][\A c \in Callers : StartFails(c) => cancel' = 0]_vars

\* C2 (as amended): every InsertMembers call of the accumulator gets, as
\* startIndex, the index of the event of its block group that arrived first,
\* and the commitments of the block group in arrival order.
C2_StartIndexIsFirstArrived ==
    \A i \in 1..Len(calls) :
        calls[i].op = "InsertMembers" =>
            LET group == GroupOf(events, calls[i].block, FALSE)
            IN /\ Len(group) > 0
               /\ calls[i].start = group[1].Index
               /\ calls[i].args = [j \in 1..Len(group) |-> group[j].IdCommitment]

\* C2 witness: a block group arrived with its lowest index not first and was inserted
C2_Witness ==
    \E i \in 1..Len(calls) :
        /\ calls[i].op = "InsertMembers"
        /\ ~calls[i].err
        /\ Len(calls[i].args) >= 2
        /\ \E j \in 1..Len(events) :
              /\ events[j].BlockNumber = calls[i].block
              /\ ~events[j].Removed
              /\ events[j].Index < calls[i].start

\* C2 (as stated): startIndex is the minimum index of the block group whatever
\* the arrival order, and the commitments are in arrival order.
C2_StartIndexIsMinimum ==
    \A i \in 1..Len(calls) :
        calls[i].op = "InsertMembers" =>
            LET group == GroupOf(events, calls[i].block, FALSE)
            IN /\ Len(group) > 0
               /\ calls[i].start = SetMin({group[j].Index : j \in 1..Len(group)})
               /\ calls[i].args = [j \in 1..Len(group) |-> group[j].IdCommitment]

C5_RemovalsBeforeInsertions ==
    /\ \A i, j \in 1..Len(calls) :
          (i < j /\ calls[i].op \in {"InsertMembers", "UpdateLatestRoot"})
              => calls[j].op \notin {"DeleteMembers", "Backfill"}
    /\ (\E i \in 1..Len(calls) : calls[i].op = "InsertMembers")
          => /\ Len(CallsOf("DeleteMembers")) = Cardinality(BlocksOf(events, TRUE))
             /\ Len(CallsOf("Backfill")) = Cardinality(BlocksOf(events, TRUE))

\* C5 witness: a batch whose first event is a registration and that also
\* carries a removal has had both kinds of calls made
C5_Witness ==
    /\ Len(events) >= 2
    /\ ~events[1].Removed
    /\ Len(CallsOf("Backfill")) >= 1
    /\ Len(CallsOf("UpdateLatestRoot")) >= 1

\* C6: when an accumulator or tracker operation of a batch fails, handler
\* returns the error of that operation, gm.lastBlockProcessed has the value
\* it had when handler was called, SetMetadata has not been called for the
\* batch and the durable watermark is unchanged.
C6_FailedBatchKeepsWatermark ==
    handlerErr \in HandlerErrors =>
        /\ calls[Len(calls)].op = handlerErr
        /\ calls[Len(calls)].err
        /\ lastBlockProcessed = entry.last
        /\ Len(metaLog) = entry.persisted
        /\ metadata = entry.durable

\* C6 witness: a batch that had already deleted members and whose candidate
\* was above the watermark failed in InsertMembers
C6_Witness ==
    /\ handlerErr = "InsertMembers"
    /\ candidate > lastBlockProcessed
    /\ Len(CallsOf("Backfill")) >= 1

\* C7: gm.lastBlockProcessed never decreases, and neither do the values
\* passed to SetMetadata, over any sequence of batches.
C7_WatermarkNeverDecreases ==
    [][lastBlockProcessed' >= lastBlockProcessed /\ NonDecreasing(metaLog')]_vars

\* C7 witness: a second batch, all of whose events are of blocks below the
\* watermark, has been handled with success
C7_Witness ==
    /\ handlerErr = "nil"
    /\ Len(metaLog) >= 2
    /\ Len(events) >= 1
    /\ \A i \in 1..Len(events) : events[i].BlockNumber < lastBlockProcessed

\* C8: gm.lastBlockProcessed is the maximum of its initial value and of the
\* block numbers of the registered (non-removed) events of the batches that
\* completed; removed events do not count.
C8_WatermarkIsMaxRegisteredBlock ==
    lastBlockProcessed = expectedWatermark

\* C8 witness: after a first batch advanced the watermark, a batch with a
\* removed event of a higher block completed
C8_Witness ==
    /\ handlerErr = "nil"
    /\ entry.last > 0
    /\ \E i \in 1..Len(events) : events[i].Removed /\ events[i].BlockNumber > lastBlockProcessed

\* C9: after a successful Start, Stop returns (with or without an error)
\* only once the background worker has exited.
C9_StopReturnsAfterWorkerExit ==
    [][\A c \in Callers : (startOK /\ StopReturns(c)) => NoWorkerAlive']_vars

\* C10: when Flush fails during the Stop of a started manager, Stop returns
\* the flush error only after it has closed the chain connection and joined
\* the background worker.
C10_FlushErrorAfterCleanup ==
    [][\A c \in Callers :
          (startOK /\ StopReturns(c) /\ ret'.err = "flush")
              => (ethClient' = "closed" /\ NoWorkerAlive')]_vars

\* C11: over any sequence of Start and Stop calls, the chain connection
\* opened by a successful Start is closed exactly once: Close is never called
\* a second time, and the connection is closed whenever a Stop of the started
\* manager returns.
C11_ConnectionClosedExactlyOnce ==
    [][/\ closes' <= 1
       /\ \A c \in Callers : (startOK /\ StopReturns(c)) => ethClient' = "closed"]_vars

\* C12: when two Start calls overlap, at most one of them is past the
\* already-started guard, so that never two connections are dialed nor two
\* workers spawned.
C12_OneStartPassesGuard ==
    /\ Cardinality({c \in Threads : pc[c] \in StartPcs}) <= 1
    /\ dials <= 1
    /\ Cardinality({w \in Threads : worker[w] # "none"}) <= 1

\* C13: a Stop called on a manager on which Start was never called returns
\* nil and changes nothing (no Flush, no Close, no wait, no field assigned),
\* however many times it is called.
C13_StopBeforeStartIsNoop ==
    [][(NeverStarted /\ StopCalled) =>
          /\ ret'.op = "Stop"
          /\ ret'.err = "nil"
          /\ pc' = pc
          /\ UNCHANGED <<cfgVars, gmVars, credentials, treeVars, metaVars, worker, handlerVars>>]_vars

\* C13 witness: Stop has returned for the second time on a manager that was
\* never started
C13_Witness ==
    /\ NeverStarted
    /\ nCalls >= 2
    /\ ret.op = "Stop"
    /\ ret.err = "nil"
    /\ flushes = 0
    /\ closes = 0

\* C14: when both passes of a batch succeed and SetMetadata then fails,
\* handler returns nil and gm.lastBlockProcessed holds the advanced value (the
\* candidate, which is the maximum registered block); every accumulator and
\* tracker call of the batch has been made with success.
C14_PersistFailureIsNotFatal ==
    setMetadataErr = "failed" =>
        /\ handlerErr = "nil"
        /\ lastBlockProcessed = candidate
        /\ lastBlockProcessed = expectedWatermark
        /\ Len(calls) = 2 * Len(HandlerPlan(toRemoveTable, toInsertTable))
        /\ \A i \in 1..Len(calls) : ~calls[i].err

\* C14 witness: SetMetadata failed for a batch that advanced the watermark
C14_Witness ==
    /\ setMetadataErr = "failed"
    /\ lastBlockProcessed > entry.last
    /\ metadata < lastBlockProcessed

\* C15: for a batch made only of registrations, running handler on the batch
\* a second time leaves the accumulator (slot to commitment, hence the root)
\* as it was after the first run.
C15_ReplayLeavesAccumulator ==
    (firstRun.replay /\ handlerErr = "nil") =>
        (tree = firstRun.tree /\ RootOf(tree) = RootOf(firstRun.tree))

\* C15 witness: a batch of two registrations has been handled twice
C15_Witness ==
    /\ firstRun.replay
    /\ handlerErr = "nil"
    /\ Len(events) >= 2
    /\ tree # EmptyTree

\* C16 (as amended): after a batch that registers a member in block b
\* succeeds, gm.lastBlockProcessed is at least b, and equals b when b is the
\* highest block among the registrations of the batch and the watermark at
\* entry; after a successful batch of removals only, every removed slot is
\* empty, the root history holds no entry at or after the lowest removed
\* block and the watermark is unchanged.
C16_WatermarkAtLeastInsertedBlock ==
    handlerErr = "nil" =>
        /\ \A i \in 1..Len(events) :
              ~events[i].Removed =>
                  /\ lastBlockProcessed >= events[i].BlockNumber
                  /\ events[i].BlockNumber = HighestRegistered
                        => lastBlockProcessed = events[i].BlockNumber
        /\ RemovalOnlyApplied

\* C16 witness: after a batch that registered a member, a batch of removals
\* of a later block completed and left the earlier root in the history
C16_Witness ==
    /\ handlerErr = "nil"
    /\ entry.last > 0
    /\ RemovalOnly(events)
    /\ Len(rootHistory) >= 1

\* C16 (as stated): after a batch that registers a member in block b succeeds,
\* gm.lastBlockProcessed equals b; and the removal part as above.
C16_WatermarkEqualsInsertedBlock ==
    handlerErr = "nil" =>
        /\ \A i \in 1..Len(events) :
              ~events[i].Removed => lastBlockProcessed = events[i].BlockNumber
        /\ RemovalOnlyApplied

\* C17: Start returns an error and spawns no worker when the keystore
\* returns no credential for the contract, when the configured keystore index
\* is not below the number of credentials returned, or when the configured
\* membership group index is not below the number of groups of the selected
\* credential.
C17_BadConfigurationFailsStart ==
    [][\A c \in Callers :
          (StartSelects(c) /\ UnusableAnswer(credentials[c])) =>
              /\ ret' = Ret(c, "Start", ret'.err)
              /\ ret'.err \in ConfigurationErrors
              /\ worker' = worker
              /\ wg' = wg]_vars

\* C17 witness: Start has failed on a keystore with fewer credentials than
\* the configured index asks for, and no worker runs
C17_Witness ==
    /\ ret.op = "Start"
    /\ ret.err = "invalid keystore index"
    /\ NoWorkerAlive
    /\ wg = 0

\* C18: IdentityCredentials and MembershipIndex each return an error while
\* the value is not resolved, and once Start has returned nil both return the
\* resolved value with no error.
C18_AccessorsAfterStart ==
    /\ identityCredential = Nil => IdentityCredentials.err # "nil"
    /\ membershipIndex = Nil => MembershipIndex.err # "nil"
    /\ startOK =>
          /\ IdentityCredentials = [value |-> IdentityOf(keystoreIndex), err |-> "nil"]
          /\ MembershipIndex =
                [value |-> TreeIndexOf(keystoreIndex, membershipGroupIndex), err |-> "nil"]

\* C18 witness: Start has returned nil with the second credential and the
\* second membership group configured
C18_Witness ==
    /\ startOK
    /\ keystoreIndex = 1
    /\ membershipGroupIndex = 1
    /\ IdentityCredentials.err = "nil"
    /\ MembershipIndex.err = "nil"

\* C19: once Start has returned nil, what IdentityCredentials and
\* MembershipIndex return never changes, whatever batch is reconciled and
\* whether or not Stop or another Start is called.
C19_CredentialsImmutableAfterStart ==
    [][startOK =>
          /\ IdentityCredentials' = IdentityCredentials
          /\ MembershipIndex' = MembershipIndex]_vars

\* C19 witness: after a successful Start a batch was reconciled and Stop
\* returned, the accessors still answering
C19_Witness ==
    /\ startOK
    /\ nBatches >= 1
    /\ ret.op = "Stop"
    /\ IdentityCredentials.err = "nil"
    /\ MembershipIndex.err = "nil"

\* C21: the Flush of Stop never runs while the background worker is inside a
\* batch that still has DeleteMembers / InsertMembers calls to make, whatever
\* the interleaving of Stop and the worker.
C21_FlushNeverOverlapsBatch ==
    [][\A c \in Callers : StopFlushes(c) => ~MutationPending]_vars

\* C22: when Stop returns without error, what its Flush made durable holds
\* every mutation of every batch whose watermark has been persisted: the
\* accumulator is as it was flushed and no higher watermark has been persisted
\* since.
C22_FlushedStateIsComplete ==
    [][\A c \in Callers :
          (StopReturns(c) /\ ret'.err = "nil") =>
              (flushed'.tree = tree' /\ metadata' = flushed'.durable)]_vars

C24_RootHistoryOrderedByBlock ==
    StrictlyIncreasing([i \in 1..Len(rootHistory) |-> rootHistory[i].blockNumber])

\* C25: in every reachable state the identity credential and the membership
\* index are resolved together: IdentityCredentials and MembershipIndex either
\* both return an error or both return a value, also after a Start that failed
\* while it selected the credential.
C25_CredentialsResolvedTogether ==
    (IdentityCredentials.err = "nil") <=> (MembershipIndex.err = "nil")

\* C26: a Stop called after a Start that returned an error never calls Flush
\* on an accumulator handle, nor Close on a chain connection, that was never
\* assigned, and it returns no error, whichever step of Start failed.
C26_StopAfterFailedStartIsSafe ==
    [][\A c \in Callers :
          (~startOK /\ pc[c] \in StopPcs) =>
              /\ ~StopOnUnassigned(c)
              /\ StopReturns(c) => ret'.err = "nil"]_vars

\* C27: in the removal pass every block that carries removed events gets one
\* DeleteMembers call, on the indexes of the removed events of the block in
\* arrival order, followed at once by the Backfill of the same block, before
\* the DeleteMembers of any other block; a DeleteMembers that fails is the last
\* call of the batch and its block gets no Backfill.
C27_RemovalPassCalls ==
    /\ \A i \in CallPositions("DeleteMembers") :
          /\ calls[i].block \in BlocksOf(events, TRUE)
          /\ calls[i].args = RemovedIndexesOf(events, calls[i].block)
          /\ \A k \in CallPositions("DeleteMembers") : k # i => calls[k].block # calls[i].block
          /\ IF calls[i].err
             THEN /\ i = Len(calls)
                  /\ \A k \in CallPositions("Backfill") : calls[k].block # calls[i].block
             ELSE /\ i < Len(calls)
                  /\ calls[i + 1].op = "Backfill"
                  /\ calls[i + 1].block = calls[i].block
    /\ \A k \in CallPositions("Backfill") :
          k > 1 /\ calls[k - 1].op = "DeleteMembers" /\ calls[k - 1].block = calls[k].block
    /\ handlerErr = "nil" =>
          {calls[i].block : i \in CallPositions("DeleteMembers")} = BlocksOf(events, TRUE)

\* C27 witness: of a batch with removed events in two blocks, the first
\* DeleteMembers was followed by its Backfill and the second one failed
C27_Witness ==
    /\ handlerErr = "DeleteMembers"
    /\ Len(calls) = 3
    /\ calls[1].op = "DeleteMembers"
    /\ calls[2].op = "Backfill"
    /\ calls[3].op = "DeleteMembers"
    /\ calls[3].err

\* C28: handler partitions a batch without loss or duplication: the removal
\* table holds, under each block number, the indexes of the removed events of
\* that block, and the insertion table the registered events of that block,
\* both in arrival order; no other key and no event twice.
C28_PartitionIsLossless ==
    /\ OmKeys(toRemoveTable) = BlocksOf(events, TRUE)
    /\ OmKeys(toInsertTable) = BlocksOf(events, FALSE)
    /\ OmKeysDistinct(toRemoveTable)
    /\ OmKeysDistinct(toInsertTable)
    /\ \A b \in Blocks :
          /\ OmGet(toRemoveTable, b) = RemovedIndexesOf(events, b)
          /\ OmGet(toInsertTable, b) = GroupOf(events, b, FALSE)

\* C28 witness: a batch with a removed and a registered event of the same
\* block has been partitioned, one event in each table
C28_Witness ==
    /\ Len(events) = 2
    /\ events[1].Removed
    /\ ~events[2].Removed
    /\ events[1].BlockNumber = events[2].BlockNumber
    /\ Len(toRemoveTable) = 1
    /\ Len(toInsertTable) = 1

\* C29: for every PushRequest, PushResponse and PushRPC with no unrecognized
\* bytes, Unmarshal of the bytes Marshal produced succeeds and gives a message
\* with the same field values, and the number of bytes produced is Size().
C29_MarshalRoundTrip ==
    /\ pbStep \in {"marshalled", "unmarshalled"} => Len(pbBytes) = pbSize
    /\ pbStep = "unmarshalled" => (pbOut.err = "nil" /\ pbOut.m = pbIn.m)

\* C29 witness: a PushRPC whose query carries the long topic and a message,
\* and whose response is set, has gone through Marshal and Unmarshal
C29_Witness ==
    /\ pbStep = "unmarshalled"
    /\ pbIn.type = "PushRPC"
    /\ pbIn.m.Query # <<>>
    /\ pbIn.m.Response # <<>>
    /\ Len(pbIn.m.Query[1].PubsubTopic) >= 128
    /\ pbIn.m.Query[1].Message # <<>>
    /\ Len(pbBytes) > 128

====
